---- MODULE Spec2Model ----
(***************************************************************************)
(* crosspmv, package_managers/cargo.rs and package_managers/error.rs:      *)
(* setting the version of a Cargo.toml through a format-preserving tree.   *)
(*                                                                         *)
(* A text is a sequence of tokens; every token stands for one fixed run of *)
(* bytes, so two texts are byte-identical exactly when their token         *)
(* sequences are equal.                                                    *)
(***************************************************************************)
EXTENDS Integers, Sequences, FiniteSets

VARIABLES contents, version, pc, result, parsed, document, again, report

\* contents, version: the arguments of the call; result: what it returned;
\* parsed: the tree toml::parse gave it; document: the tree as the call left
\* it; again: what the same call returned on the text of result; report: the
\* error of result, wrapped and rendered.
vars == <<contents, version, pc, result, parsed, document, again, report>>

(* ------------------------------ bounds --------------------------------- *)

\* The longest manifest, in lines.
MaxLines == 4

(* ------------------------------ tokens --------------------------------- *)

Tok(k, s) == [k |-> k, s |-> s]

LB == Tok("lb", "[")
RB == Tok("rb", "]")
DOT == Tok("dot", ".")
EQ == Tok("eq", "=")
SP == Tok("ws", " ")
NL == Tok("nl", "\n")
Bare(s) == Tok("bare", s)
Basic(s) == Tok("basic", s)
Integer(s) == Tok("int", s)
Comment(s) == Tok("comment", s)

(* ------------------------- sequence helpers ---------------------------- *)

RECURSIVE Flatten(_)
Flatten(ss) == IF ss = <<>> THEN <<>> ELSE Head(ss) \o Flatten(Tail(ss))

IsPrefix(p, q) == Len(p) <= Len(q) /\ SubSeq(q, 1, Len(p)) = p

IsProperPrefix(p, q) == Len(p) < Len(q) /\ SubSeq(q, 1, Len(p)) = p

\* The lines of a text, without their line ends; a last line that no line
\* end closes is a line too.
RECURSIVE SplitLines(_, _)
SplitLines(text, cur) ==
    IF text = <<>> THEN (IF cur = <<>> THEN <<>> ELSE <<cur>>)
    ELSE IF Head(text).k = "nl" THEN <<cur>> \o SplitLines(Tail(text), <<>>)
    ELSE SplitLines(Tail(text), Append(cur, Head(text)))

(* --------------------- crate::parsers::toml::parse --------------------- *)

\* The leading whitespace of a line.
LeadOf(line) == IF line # <<>> /\ line[1].k = "ws" THEN <<line[1]>> ELSE <<>>

\* How many tokens at the end of a line are its trailing whitespace and comment.
TrailLen(rest) ==
    LET n == Len(rest)
        c == IF n > 0 /\ rest[n].k = "comment" THEN 1 ELSE 0
        w == IF n - c > 0 /\ rest[n - c].k = "ws" THEN 1 ELSE 0
    IN c + w

IsHeaderCore(core) ==
    LET n == Len(core) IN
    /\ n >= 3
    /\ core[1].k = "lb"
    /\ core[n].k = "rb"
    /\ (n - 2) % 2 = 1
    /\ \A i \in 2..(n - 1) : core[i].k = (IF i % 2 = 0 THEN "bare" ELSE "dot")

HeaderPath(core) == [i \in 1..((Len(core) - 1) \div 2) |-> core[2 * i].s]

\* The position of the "=" of a key/value line, 0 when it has none in place.
EqIndex(core) ==
    IF Len(core) >= 2 /\ core[2].k = "eq" THEN 2
    ELSE IF Len(core) >= 3 /\ core[2].k = "ws" /\ core[3].k = "eq" THEN 3
    ELSE 0

ValueTokens(core) ==
    LET after == SubSeq(core, EqIndex(core) + 1, Len(core))
    IN IF after # <<>> /\ after[1].k = "ws" THEN Tail(after) ELSE after

ValuePrefix(core) ==
    LET after == SubSeq(core, EqIndex(core) + 1, Len(core))
    IN IF after # <<>> /\ after[1].k = "ws" THEN <<after[1]>> ELSE <<>>

IsValueTokens(vt) == Len(vt) = 1 /\ vt[1].k \in {"basic", "int"}

IsKeyValCore(core) ==
    /\ core # <<>>
    /\ core[1].k = "bare"
    /\ EqIndex(core) # 0
    /\ IsValueTokens(ValueTokens(core))

\* toml_edit::Value, with the text it was read from (repr) and the whitespace
\* and comment around it (decor).
ValueOf(vt, prefix, suffix) ==
    [ty |-> IF vt[1].k = "basic" THEN "String" ELSE "Integer",
     s |-> vt[1].s,
     repr |-> vt, prefix |-> prefix, suffix |-> suffix]

\* toml_edit::Key, with its repr and its leaf decor.
KeyOf(name, prefix, suffix) ==
    [name |-> name, repr |-> <<Bare(name)>>, prefix |-> prefix, suffix |-> suffix]

\* One line of a manifest: blank or comment ("trivia"), a table header, a
\* key/value pair, or no TOML at all.
ParseLine(line) ==
    LET lead == LeadOf(line)
        rest == SubSeq(line, Len(lead) + 1, Len(line))
        tl == TrailLen(rest)
        core == SubSeq(rest, 1, Len(rest) - tl)
        trail == SubSeq(rest, Len(rest) - tl + 1, Len(rest))
    IN IF core = <<>> THEN [t |-> "trivia"]
       ELSE IF IsHeaderCore(core)
       THEN [t |-> "table", path |-> HeaderPath(core), lead |-> lead, trail |-> trail]
       ELSE IF IsKeyValCore(core)
       THEN [t |-> "kv", name |-> core[1].s, lead |-> lead,
             ksuf |-> SubSeq(core, 2, EqIndex(core) - 1),
             val |-> ValueOf(ValueTokens(core), ValuePrefix(core), trail)]
       ELSE [t |-> "error"]

\* A header names a table that a key/value pair already occupies, or that a
\* header already defined.
TableClash(entries, path) ==
    \E i \in 1..Len(entries) :
        \/ entries[i].path = path
        \/ entries[i].e = "kv" /\ IsProperPrefix(entries[i].path, path)

\* A key that the table already holds, as a value or as a sub-table.
KeyClash(entries, path) ==
    \E i \in 1..Len(entries) : IsPrefix(path, entries[i].path)

RECURSIVE ParseLines(_, _, _, _)
ParseLines(lines, i, closed, st) ==
    IF i > Len(lines) \/ ~st.ok THEN st
    ELSE
    LET line == lines[i]
        pl == ParseLine(line)
        nl == IF i < Len(lines) \/ closed THEN <<NL>> ELSE <<>>
    IN IF pl.t = "error" THEN [st EXCEPT !.ok = FALSE]
       ELSE IF pl.t = "trivia"
       THEN ParseLines(lines, i + 1, closed,
                       [st EXCEPT !.pending = st.pending \o line \o nl])
       ELSE IF pl.t = "table"
       THEN IF TableClash(st.entries, pl.path) THEN [st EXCEPT !.ok = FALSE]
            ELSE ParseLines(lines, i + 1, closed,
                 [ok |-> TRUE,
                  entries |-> Append(st.entries,
                      [e |-> "table", path |-> pl.path,
                       prefix |-> st.pending \o pl.lead, suffix |-> pl.trail]),
                  pending |-> <<>>, cur |-> pl.path])
       ELSE IF KeyClash(st.entries, Append(st.cur, pl.name))
            THEN [st EXCEPT !.ok = FALSE]
            ELSE ParseLines(lines, i + 1, closed,
                 [ok |-> TRUE,
                  entries |-> Append(st.entries,
                      [e |-> "kv", path |-> Append(st.cur, pl.name),
                       key |-> KeyOf(pl.name, st.pending \o pl.lead, pl.ksuf),
                       val |-> pl.val]),
                  pending |-> <<>>, cur |-> st.cur])

\* toml::parse: the text as a toml_edit::DocumentMut, or a TomlError.  The
\* tree is kept as its entries in the order of the text; the blank lines and
\* comments before an entry are the prefix of its decor, those after the last
\* entry are the trailing text of the document.
Parse(text) ==
    LET closed == text # <<>> /\ text[Len(text)].k = "nl"
        st == ParseLines(SplitLines(text, <<>>), 1, closed,
                         [ok |-> TRUE, entries |-> <<>>, pending |-> <<>>, cur |-> <<>>])
    IN IF st.ok THEN [ok |-> TRUE, doc |-> [entries |-> st.entries, trailing |-> st.pending]]
       ELSE [ok |-> FALSE]

(* ------------------- crate::parsers::toml::serialize ------------------- *)

RECURSIVE Dotted(_)
Dotted(path) ==
    IF Len(path) = 1 THEN <<Bare(path[1])>>
    ELSE <<Bare(path[1]), DOT>> \o Dotted(Tail(path))

EncodeEntry(en) ==
    IF en.e = "table"
    THEN en.prefix \o <<LB>> \o Dotted(en.path) \o <<RB>> \o en.suffix \o <<NL>>
    ELSE en.key.prefix \o en.key.repr \o en.key.suffix \o <<EQ>>
         \o en.val.prefix \o en.val.repr \o en.val.suffix \o <<NL>>

\* toml::serialize: the document as text, every entry with its own repr and
\* decor.
Serialize(doc) ==
    Flatten([i \in 1..Len(doc.entries) |-> EncodeEntry(doc.entries[i])]) \o doc.trailing

(* ------------------------ toml_edit tree access ------------------------ *)

NoItem == [kind |-> "None"]

\* TableLike::get on the table at tpath: the value under the key, the
\* sub-table under it (one a header defines, or one implied by a longer
\* header), or nothing.
Get(doc, tpath, key) ==
    LET p == Append(tpath, key)
        es == doc.entries
        at == {i \in 1..Len(es) : es[i].e = "kv" /\ es[i].path = p}
    IN IF at # {} THEN [kind |-> "Value", path |-> p, val |-> es[CHOOSE i \in at : TRUE].val]
       ELSE IF \E i \in 1..Len(es) : IsPrefix(p, es[i].path) THEN [kind |-> "Table", path |-> p]
       ELSE NoItem

\* Item::as_table_like_mut: the item is a table (the manifests read hold no
\* inline table).
IsTableLike(item) == item.kind = "Table"

\* Item::as_str: the item is a string value.
IsStr(item) == item.kind = "Value" /\ item.val.ty = "String"

\* TableLike::get on a table-like item.
TableLikeGet(doc, table, key) == Get(doc, table.path, key)

\* Formatted::new: a value with neither repr nor decor of its own, which is
\* written as a basic string after one space.
FormattedNew(v) ==
    [ty |-> "String", s |-> v, repr |-> <<Basic(v)>>, prefix |-> <<SP>>, suffix |-> <<>>]

\* Insert, faulty: the key is formatted anew and the old value is kept.
InsertKeepsValue(doc, table, key, val) ==
    LET p == Append(table.path, key) IN
    [doc EXCEPT !.entries =
        [i \in 1..Len(doc.entries) |->
            IF doc.entries[i].e = "kv" /\ doc.entries[i].path = p
            THEN [doc.entries[i] EXCEPT !.key = KeyOf(key, <<>>, <<SP>>)]
            ELSE doc.entries[i]]]

\* TableLike::insert on a key the table holds: the value is replaced by the
\* new one and the key is formatted anew (Key::fmt), bare with the default
\* decor.
Insert(doc, table, key, val) ==
    LET p == Append(table.path, key) IN
    [doc EXCEPT !.entries =
        [i \in 1..Len(doc.entries) |->
            IF doc.entries[i].e = "kv" /\ doc.entries[i].path = p
            THEN [doc.entries[i] EXCEPT !.key = KeyOf(key, <<>>, <<SP>>), !.val = val]
            ELSE doc.entries[i]]]

(* --------------------------- CargoTomlError ---------------------------- *)

InvalidPackageFieldDataType(workspace) ==
    [variant |-> "InvalidPackageFieldDataType", workspace |-> workspace]

InvalidPackageVersionFieldDataType(workspace) ==
    [variant |-> "InvalidPackageVersionFieldDataType", workspace |-> workspace]

InvalidWorkspaceFieldDataType == [variant |-> "InvalidWorkspaceFieldDataType"]

MissingPackageField(workspace) ==
    [variant |-> "MissingPackageField", workspace |-> workspace]

MissingPackageVersionField(workspace) ==
    [variant |-> "MissingPackageVersionField", workspace |-> workspace]

ParseToml == [variant |-> "ParseToml"]

\* The message of the TOML parser, which names no field of the manifest.
TomlErrorMessage == <<"TOML parse error">>

\* CargoTomlErrorFmt, faulty: the workspace flag is not looked at.
CargoTomlErrorFmtFlagIgnored(error) ==
    IF error.variant = "ParseToml" THEN TomlErrorMessage
    ELSE IF error.variant = "InvalidPackageVersionFieldDataType"
    THEN <<"\"package.version\"", " field is not a string">>
    ELSE IF error.variant = "InvalidPackageFieldDataType"
    THEN <<"\"package\"", " field is not a table">>
    ELSE IF error.variant = "MissingPackageVersionField"
    THEN <<"\"package.version\"", " field not found">>
    ELSE IF error.variant = "MissingPackageField"
    THEN <<"\"package\"", " field not found">>
    ELSE <<"\"workspace\"", " is not a table">>

\* Display for CargoTomlError: the message, as the quoted field followed by
\* the rest of the sentence.
CargoTomlErrorFmt(error) ==
    IF error.variant = "ParseToml" THEN TomlErrorMessage
    ELSE IF error.variant = "InvalidPackageVersionFieldDataType"
    THEN <<IF error.workspace THEN "\"workspace.package.version\"" ELSE "\"package.version\"",
           " field is not a string">>
    ELSE IF error.variant = "InvalidPackageFieldDataType"
    THEN <<IF error.workspace THEN "\"workspace.package\"" ELSE "\"package\"",
           " field is not a table">>
    ELSE IF error.variant = "MissingPackageVersionField"
    THEN <<IF error.workspace THEN "\"workspace.package.version\"" ELSE "\"package.version\"",
           " field not found">>
    ELSE IF error.variant = "MissingPackageField"
    THEN <<IF error.workspace THEN "\"workspace.package\"" ELSE "\"package\"",
           " field not found">>
    ELSE <<"\"workspace\"", " is not a table">>

(* ------------------------- PackageManagerError ------------------------- *)

\* From<CargoTomlError> for PackageManagerError.
FromCargoTomlError(value) == [variant |-> "CargoToml", inner |-> value]

\* Display for PackageManagerError.
PackageManagerErrorFmt(error) == CargoTomlErrorFmt(error.inner)

(* ------------------------- set_package_version ------------------------- *)

Err(error) == [ok |-> FALSE, error |-> error]

\* SetPackageVersion, faulty: every call counts as a change.
SetPackageVersionAlwaysModified(doc, package_table, v, workspace) ==
    LET version_key == TableLikeGet(doc, package_table, "version") IN
    IF version_key.kind = "None" THEN Err(MissingPackageVersionField(workspace))
    ELSE IF ~IsStr(version_key) THEN Err(InvalidPackageVersionFieldDataType(workspace))
    ELSE [ok |-> TRUE, modified |-> TRUE,
          document |-> Insert(doc, package_table, "version", FormattedNew(v))]

\* SetPackageVersion, faulty: the comparison is the wrong way round.
SetPackageVersionInverted(doc, package_table, v, workspace) ==
    LET version_key == TableLikeGet(doc, package_table, "version") IN
    IF version_key.kind = "None" THEN Err(MissingPackageVersionField(workspace))
    ELSE IF ~IsStr(version_key) THEN Err(InvalidPackageVersionFieldDataType(workspace))
    ELSE LET modified == version_key.val.s = v IN
         [ok |-> TRUE, modified |-> modified,
          document |-> IF modified
                       THEN Insert(doc, package_table, "version", FormattedNew(v))
                       ELSE doc]

\* SetPackageVersion, faulty: the errors do not carry the workspace flag.
SetPackageVersionFlagLost(doc, package_table, v, workspace) ==
    LET version_key == TableLikeGet(doc, package_table, "version") IN
    IF version_key.kind = "None" THEN Err(MissingPackageVersionField(FALSE))
    ELSE IF ~IsStr(version_key) THEN Err(InvalidPackageVersionFieldDataType(FALSE))
    ELSE LET modified == version_key.val.s # v IN
         [ok |-> TRUE, modified |-> modified,
          document |-> IF modified
                       THEN Insert(doc, package_table, "version", FormattedNew(v))
                       ELSE doc]

SetPackageVersion(doc, package_table, v, workspace) ==
    LET version_key == TableLikeGet(doc, package_table, "version") IN
    IF version_key.kind = "None" THEN Err(MissingPackageVersionField(workspace))
    ELSE IF ~IsStr(version_key) THEN Err(InvalidPackageVersionFieldDataType(workspace))
    ELSE LET modified == version_key.val.s # v IN
         [ok |-> TRUE, modified |-> modified,
          document |-> IF modified
                       THEN Insert(doc, package_table, "version", FormattedNew(v))
                       ELSE doc]

(* ------------------------ set_cargo_toml_version ----------------------- *)

\* What the call returns, and the tree it leaves behind.
Finish(text, set) ==
    IF ~set.ok THEN set
    ELSE [ok |-> TRUE, modified |-> set.modified,
          output |-> IF set.modified THEN Serialize(set.document) ELSE text,
          document |-> set.document]

\* The branch taken when the document has no "workspace" key and has a
\* "package" key.
ViaPackage(text, doc, package_raw, v) ==
    IF ~IsTableLike(package_raw) THEN Err(InvalidPackageFieldDataType(FALSE))
    ELSE Finish(text, SetPackageVersion(doc, package_raw, v, FALSE))

\* ViaWorkspace, faulty: the package key is looked up before the workspace
\* is known to be a table.
ViaWorkspacePackageFirst(text, doc, workspace, v) ==
    LET package == TableLikeGet(doc, workspace, "package") IN
    IF package.kind = "None" THEN Err(MissingPackageField(TRUE))
    ELSE IF ~IsTableLike(workspace) THEN Err(InvalidWorkspaceFieldDataType)
    ELSE IF ~IsTableLike(package) THEN Err(InvalidPackageFieldDataType(TRUE))
    ELSE Finish(text, SetPackageVersion(doc, package, v, TRUE))

\* ViaWorkspace, faulty: a workspace without a package key falls back to the
\* top-level package.
ViaWorkspaceFallback(text, doc, workspace, v) ==
    IF ~IsTableLike(workspace) THEN Err(InvalidWorkspaceFieldDataType)
    ELSE LET package == TableLikeGet(doc, workspace, "package") IN
         IF package.kind = "None"
         THEN (IF Get(doc, <<>>, "package").kind # "None"
               THEN ViaPackage(text, doc, Get(doc, <<>>, "package"), v)
               ELSE Err(MissingPackageField(TRUE)))
         ELSE IF ~IsTableLike(package) THEN Err(InvalidPackageFieldDataType(TRUE))
         ELSE Finish(text, SetPackageVersion(doc, package, v, TRUE))

\* The branch taken when the document has a "workspace" key.
ViaWorkspace(text, doc, workspace, v) ==
    IF ~IsTableLike(workspace) THEN Err(InvalidWorkspaceFieldDataType)
    ELSE LET package == TableLikeGet(doc, workspace, "package") IN
         IF package.kind = "None" THEN Err(MissingPackageField(TRUE))
         ELSE IF ~IsTableLike(package) THEN Err(InvalidPackageFieldDataType(TRUE))
         ELSE Finish(text, SetPackageVersion(doc, package, v, TRUE))

\* NeitherRootKey, faulty: the error of the workspace placement.
NeitherRootKeyAsWorkspace == Err(MissingPackageField(TRUE))

\* The branch taken when it has neither.
NeitherRootKey == Err(MissingPackageField(FALSE))

\* SetVersionIn, faulty: the top-level package is tried first.
SetVersionInPackageFirst(text, tree, v) ==
    IF ~tree.ok THEN Err(ParseToml)
    ELSE
    LET doc == tree.doc
        workspace == Get(doc, <<>>, "workspace")
        package_raw == Get(doc, <<>>, "package")
    IN IF package_raw.kind # "None" THEN ViaPackage(text, doc, package_raw, v)
       ELSE IF workspace.kind # "None" THEN ViaWorkspace(text, doc, workspace, v)
       ELSE NeitherRootKey

\* set_cargo_toml_version from the result of toml::parse on.
SetVersionIn(text, tree, v) ==
    IF ~tree.ok THEN Err(ParseToml)
    ELSE
    LET doc == tree.doc
        workspace == Get(doc, <<>>, "workspace")
        package_raw == Get(doc, <<>>, "package")
    IN IF workspace.kind # "None" THEN ViaWorkspace(text, doc, workspace, v)
       ELSE IF package_raw.kind # "None" THEN ViaPackage(text, doc, package_raw, v)
       ELSE NeitherRootKey

SetCargoTomlVersion(text, v) == SetVersionIn(text, Parse(text), v)

(* ------------------------------ manifests ------------------------------ *)

Line(toks) == toks \o <<NL>>

Header(path) == Line(<<LB>> \o Dotted(path) \o <<RB>>)

KeyVal(key, val) == Line(<<Bare(key), SP, EQ, SP, val>>)

\* The lines a manifest is made of.
Lines ==
    { Header(<<"workspace">>),
      Header(<<"workspace", "package">>),
      Header(<<"package">>),
      Header(<<"package", "version">>),
      Header(<<"workspace", "package", "version">>),
      KeyVal("version", Basic("0.0.0")),
      Line(<<Bare("version"), SP, EQ, SP, Basic("0.0.0"), SP, Comment("# c")>>),
      KeyVal("version", Integer("1")),
      KeyVal("package", Basic("123")),
      KeyVal("workspace", Basic("123")),
      Line(<<Comment("# c")>>) }

Versions == {"0.0.0", "1.2.3"}

(* ---------------------------- the caller ------------------------------- *)

None == [ok |-> FALSE, error |-> [variant |-> "None"]]

NoReport == [error |-> [variant |-> "None"], message |-> <<>>]

Init ==
    /\ \E n \in 0..MaxLines : \E f \in [1..n -> Lines] : contents = Flatten(f)
    /\ version \in Versions
    /\ pc = "start"
    /\ result = None
    /\ parsed = [ok |-> FALSE]
    /\ document = [entries |-> <<>>, trailing |-> <<>>]
    /\ again = None
    /\ report = NoReport

\* The caller sets the version of the manifest.
SetVersion ==
    /\ pc = "start"
    /\ LET r == SetCargoTomlVersion(contents, version) IN
       /\ result' = (IF r.ok THEN [ok |-> TRUE, modified |-> r.modified, output |-> r.output]
                     ELSE r)
       /\ document' = (IF r.ok THEN r.document ELSE document)
    /\ parsed' = Parse(contents)
    /\ pc' = "returned"
    /\ UNCHANGED <<contents, version, again, report>>

\* The caller sets the same version on the text it got back.
SetVersionAgain ==
    /\ pc = "returned"
    /\ result.ok
    /\ LET r == SetCargoTomlVersion(result.output, version) IN
       again' = (IF r.ok THEN [ok |-> TRUE, modified |-> r.modified, output |-> r.output]
                 ELSE r)
    /\ pc' = "repeated"
    /\ UNCHANGED <<contents, version, result, parsed, document, report>>

\* The caller wraps the error and renders it.
ReportError ==
    /\ pc = "returned"
    /\ ~result.ok
    /\ LET wrapped == FromCargoTomlError(result.error) IN
       report' = [error |-> wrapped, message |-> PackageManagerErrorFmt(wrapped)]
    /\ pc' = "reported"
    /\ UNCHANGED <<contents, version, result, parsed, document, again>>

Next == SetVersion \/ SetVersionAgain \/ ReportError

Spec == Init /\ [][Next]_vars

(* ------------------------------ properties ----------------------------- *)

\* The call has returned.
Returned == pc # "start"

\* The manifest the call was given, as a tree.
InputOk == parsed.ok

Input == parsed.doc

RootWorkspace(doc) == Get(doc, <<>>, "workspace")

RootPackage(doc) == Get(doc, <<>>, "package")

\* The placement rule: workspace.package when the document has a "workspace"
\* key, package otherwise.
ViaWorkspacePlacement(doc) == RootWorkspace(doc).kind # "None"

PlacementPath(doc) ==
    IF ViaWorkspacePlacement(doc) THEN <<"workspace", "package">> ELSE <<"package">>

\* The package table of the placement exists, with tables all the way to it.
PackageTableSelected(doc) ==
    /\ ViaWorkspacePlacement(doc) => RootWorkspace(doc).kind = "Table"
    /\ Get(doc, SubSeq(PlacementPath(doc), 1, Len(PlacementPath(doc)) - 1),
           PlacementPath(doc)[Len(PlacementPath(doc))]).kind = "Table"

LocatedVersion(doc) == Get(doc, PlacementPath(doc), "version")

LocatedIsString(doc) ==
    LocatedVersion(doc).kind = "Value" /\ LocatedVersion(doc).val.ty = "String"

Failed(error) == Returned /\ ~result.ok /\ result = [ok |-> FALSE, error |-> error]

\* The entries of a tree at or below a path.
Under(doc, path) ==
    [i \in {j \in 1..Len(doc.entries) : IsPrefix(path, doc.entries[j].path)}
        |-> doc.entries[i]]

\* C1: idempotence.  When a call succeeds with text T, the same call on T
\* succeeds, reports modified = false and returns T byte for byte.
C1_Idempotent ==
    pc = "repeated" =>
        /\ again.ok
        /\ ~again.modified
        /\ again.output = result.output

C1_Witness == pc = "repeated" /\ result.modified /\ ~again.modified

\* C2: no-op preservation.  When the located version already equals the
\* desired one the call reports modified = false and returns the input text;
\* and whenever it reports modified = false the text returned is the input.
C2_NoOpPreserved ==
    (Returned /\ InputOk) =>
        /\ (result.ok /\ ~result.modified) => result.output = contents
        /\ (LocatedIsString(Input) /\ LocatedVersion(Input).val.s = version)
              => (result.ok /\ ~result.modified /\ result.output = contents)

C2_Witness ==
    /\ Returned /\ InputOk
    /\ LocatedIsString(Input) /\ LocatedVersion(Input).val.s = version
    /\ LocatedVersion(Input).val.suffix # <<>>
    /\ result.ok /\ ~result.modified

\* C3: minimal diff.  When the call reports modified = true, the output is
\* the input with the one token of the version value replaced and every other
\* token, the decor of the version entry included, unchanged.
C3_MinimalDiff ==
    (Returned /\ result.ok /\ result.modified) =>
        /\ Len(result.output) = Len(contents)
        /\ \E i \in 1..Len(contents) :
              /\ contents[i].k = "basic"
              /\ result.output[i] = Basic(version)
              /\ \A j \in (1..Len(contents)) \ {i} : result.output[j] = contents[j]

\* C4: priority order.  With a top-level workspace table holding a package
\* table and a top-level package table, the outcome is decided by
\* workspace.package.version alone and the top-level package table is left
\* as it was.
C4_PriorityOrder ==
    (/\ Returned /\ InputOk
     /\ RootWorkspace(Input).kind = "Table"
     /\ Get(Input, <<"workspace">>, "package").kind = "Table"
     /\ RootPackage(Input).kind = "Table") =>
        LET wv == Get(Input, <<"workspace", "package">>, "version") IN
        IF wv.kind = "None" THEN Failed(MissingPackageVersionField(TRUE))
        ELSE IF wv.kind # "Value" \/ wv.val.ty # "String"
        THEN Failed(InvalidPackageVersionFieldDataType(TRUE))
        ELSE /\ result.ok
             /\ result.modified = (wv.val.s # version)
             /\ Under(document, <<"package">>) = Under(Input, <<"package">>)
             /\ Parse(result.output).ok
             /\ Under(Parse(result.output).doc, <<"package">>) = Under(Input, <<"package">>)
             /\ Get(Parse(result.output).doc, <<"workspace", "package">>, "version").val.s
                   = version

C4_Witness ==
    /\ Returned /\ InputOk
    /\ LocatedIsString(Input) /\ ViaWorkspacePlacement(Input)
    /\ Get(Input, <<"package">>, "version").kind = "Value"
    /\ Get(Input, <<"package">>, "version").val.s # version
    /\ result.ok /\ result.modified

\* C5: the version setter.  With a string under the located version key the
\* call succeeds and reports modified = true exactly when the string differs
\* from the desired version; then the value is a string holding the desired
\* version, otherwise the tree is the one parsed.  After every success the
\* located version is the desired one.
C5_SetterResult ==
    (Returned /\ InputOk) =>
        /\ (PackageTableSelected(Input) /\ LocatedIsString(Input)) => result.ok
        /\ result.ok =>
              /\ LocatedIsString(Input)
              /\ result.modified = (LocatedVersion(Input).val.s # version)
              /\ ~result.modified => document = Input
              /\ LocatedIsString(document)
              /\ LocatedVersion(document).val.s = version

C5_Witness ==
    /\ Returned /\ InputOk /\ result.ok /\ result.modified
    /\ LocatedVersion(Input).val.s # version
    /\ LocatedVersion(document).val.s = version

\* C6: the setter neither creates a version key nor coerces one.  With the
\* package table selected, a missing version key fails with
\* MissingPackageVersionField and a version that is no string fails with
\* InvalidPackageVersionFieldDataType, the flag telling whether the table was
\* reached through the workspace; no text and no tree come back.
C6_NeverCreatesNorCoerces ==
    (Returned /\ InputOk /\ PackageTableSelected(Input)) =>
        /\ LocatedVersion(Input).kind = "None"
              => Failed(MissingPackageVersionField(ViaWorkspacePlacement(Input)))
        /\ (LocatedVersion(Input).kind # "None" /\ ~LocatedIsString(Input))
              => Failed(InvalidPackageVersionFieldDataType(ViaWorkspacePlacement(Input)))
        /\ ~result.ok =>
              /\ DOMAIN result = {"ok", "error"}
              /\ document = [entries |-> <<>>, trailing |-> <<>>]

C6_Witness ==
    /\ Returned /\ InputOk /\ PackageTableSelected(Input)
    /\ ViaWorkspacePlacement(Input)
    /\ LocatedVersion(Input).kind = "Value"
    /\ Failed(InvalidPackageVersionFieldDataType(TRUE))

\* C7: with neither root key in the document, the empty text included, the
\* call fails with MissingPackageField{workspace: false} and returns no text.
C7_NeitherRootKey ==
    (/\ Returned /\ InputOk
     /\ RootWorkspace(Input).kind = "None"
     /\ RootPackage(Input).kind = "None") =>
        /\ Failed(MissingPackageField(FALSE))
        /\ DOMAIN result = {"ok", "error"}

C7_Witness == Returned /\ contents = <<>> /\ Failed(MissingPackageField(FALSE))

\* C8: the first failing hop wins.  A workspace key that is no table fails
\* with InvalidWorkspaceFieldDataType whatever else the document holds; a
\* package key of the placement that is no table fails with
\* InvalidPackageFieldDataType, workspace = true under workspace and false at
\* the top level.
C8_FirstFailingHop ==
    (Returned /\ InputOk) =>
        /\ RootWorkspace(Input).kind = "Value" => Failed(InvalidWorkspaceFieldDataType)
        /\ (/\ RootWorkspace(Input).kind = "Table"
            /\ Get(Input, <<"workspace">>, "package").kind = "Value")
              => Failed(InvalidPackageFieldDataType(TRUE))
        /\ (/\ RootWorkspace(Input).kind = "None"
            /\ RootPackage(Input).kind = "Value")
              => Failed(InvalidPackageFieldDataType(FALSE))

C8_Witness ==
    /\ Returned /\ InputOk
    /\ RootWorkspace(Input).kind = "Value"
    /\ RootPackage(Input).kind = "Table"
    /\ Get(Input, <<"package">>, "version").kind = "Value"
    /\ Failed(InvalidWorkspaceFieldDataType)

\* The field each error is about.
FieldOf(error) ==
    IF error.variant = "InvalidWorkspaceFieldDataType" THEN "\"workspace\""
    ELSE IF error.variant \in {"MissingPackageField", "InvalidPackageFieldDataType"}
    THEN (IF error.workspace THEN "\"workspace.package\"" ELSE "\"package\"")
    ELSE (IF error.workspace THEN "\"workspace.package.version\"" ELSE "\"package.version\"")

FieldErrors ==
    {InvalidWorkspaceFieldDataType}
    \cup {MissingPackageField(w) : w \in BOOLEAN}
    \cup {InvalidPackageFieldDataType(w) : w \in BOOLEAN}
    \cup {MissingPackageVersionField(w) : w \in BOOLEAN}
    \cup {InvalidPackageVersionFieldDataType(w) : w \in BOOLEAN}

\* C9: the message of every error about a field names that field, the
\* wrapped error renders the message of the error it wraps, and no two
\* errors render the same message once wrapped.
C9_ErrorMessages ==
    pc = "reported" =>
        /\ report.error.inner = result.error
        /\ report.message = CargoTomlErrorFmt(result.error)
        /\ result.error \in FieldErrors => report.message[1] = FieldOf(result.error)
        /\ \A e \in (FieldErrors \cup {ParseToml}) \ {result.error} :
              PackageManagerErrorFmt(FromCargoTomlError(e)) # report.message

C9_Witness ==
    /\ pc = "reported"
    /\ result.error = MissingPackageVersionField(TRUE)
    /\ report.message = <<"\"workspace.package.version\"", " field not found">>

\* C10: no fallback under a workspace table.  With a workspace table that
\* has no package key the call fails with MissingPackageField{workspace:
\* true}, whether or not the document has a top-level package table.
C10_NoFallback ==
    (/\ Returned /\ InputOk
     /\ RootWorkspace(Input).kind = "Table"
     /\ Get(Input, <<"workspace">>, "package").kind = "None") =>
        /\ Failed(MissingPackageField(TRUE))
        /\ DOMAIN result = {"ok", "error"}

C10_Witness ==
    /\ Returned /\ InputOk
    /\ RootWorkspace(Input).kind = "Table"
    /\ Get(Input, <<"workspace">>, "package").kind = "None"
    /\ RootPackage(Input).kind = "Table"
    /\ Get(Input, <<"package">>, "version").kind = "Value"
    /\ Get(Input, <<"package">>, "version").val.ty = "String"
    /\ Failed(MissingPackageField(TRUE))

====
